---- MODULE Spec2Model ----
(***************************************************************************)
(* A model of agent-engine-playtime: the configuration resolver            *)
(* (src/config.py, src/deploy.py), the calculator tool (three copies),     *)
(* the deployment command line (src/deploy.py) and the remote-query        *)
(* program (examples/query_deployed_agent.py).                             *)
(*                                                                         *)
(* Python values are tagged records: None, PyStr(s).  A call's outcome is  *)
(* Return(v) or Raise(e); NotCalled is the outcome before the call.        *)
(***************************************************************************)
EXTENDS Integers, Sequences, FiniteSets, TLC

VARIABLES
    environ,     \* os.environ as the program sees it (after load_dotenv)
    cfgEntry,    \* which configuration entry point was called
    cfgOut,      \* what that call produced
    calcArg,     \* the expression calculate is called with
    calcCopy,    \* which copy of calculate was called
    calcOut,     \* what that call did
    prog,        \* the program that runs: the deployment CLI, the query program
    argv,        \* its command-line arguments, parsed
    pc,          \* the statement it has reached
    calls,       \* the calls it has made to the SDK and the platform, in order
    printed,     \* what it has printed, in order
    exitWith,    \* how it ended
    inputs       \* what input() has given it, call by call

cfgVars == <<environ, cfgEntry, cfgOut>>

calcVars == <<calcArg, calcCopy, calcOut>>

runVars == <<prog, argv, pc, calls, printed, exitWith, inputs>>

vars == <<cfgVars, calcVars, runVars>>

-----------------------------------------------------------------------------
(* Python values and call outcomes *)

None == [py |-> "None"]

PyStr(s) == [py |-> "str", s |-> s]

\* A truthiness test that only asks "is not None".
TruthyIsNotNone(v) == v # [py |-> "None"]

\* Python truthiness of an Optional[str]: None and "" are falsy.
Truthy(v) == v # None /\ v # PyStr("")

NotCalled == [kind |-> "not called"]

Return(v) == [kind |-> "return", value |-> v]

Raise(e) == [kind |-> "raise", exc |-> e]

ValueError(words) == [type |-> "ValueError", msg |-> words]

-----------------------------------------------------------------------------
(* The process environment *)

EnvNames ==
    {"GOOGLE_CLOUD_PROJECT", "GOOGLE_CLOUD_LOCATION",
     "AGENT_ENGINE_STAGING_BUCKET", "MODEL_NAME"}

\* The values each variable takes in the model; "" is a variable that is
\* set and empty.
EnvValues ==
    [GOOGLE_CLOUD_PROJECT |-> {"", "test-project", "p2"},
     GOOGLE_CLOUD_LOCATION |-> {"", "us-west1", "us-central1"},
     AGENT_ENGINE_STAGING_BUCKET |-> {"", "gs://bucket"},
     MODEL_NAME |-> {"", "gemini-pro"}]

\* Every mapping from a subset of the four names to one of its values.
Environments ==
    UNION {{e \in [D -> UNION {EnvValues[n] : n \in EnvNames}] :
               \A n \in D : e[n] \in EnvValues[n]} : D \in SUBSET EnvNames}

\* "os.getenv(name) or default": an empty value falls back to the default too.
os_getenv_or_default(e, name, default) ==
    IF name \in DOMAIN e /\ e[name] # "" THEN PyStr(e[name]) ELSE default

\* os.getenv(name, default): the value when the name is set, else default.
os_getenv(e, name, default) ==
    IF name \in DOMAIN e THEN PyStr(e[name]) ELSE default

-----------------------------------------------------------------------------
(* Configuration resolution *)

\* The message of Config.from_env's ValueError, word by word.
FromEnvMessage ==
    <<"GOOGLE_CLOUD_PROJECT", "environment", "variable", "is", "required.",
      "Copy", "env.example", "to", ".env", "and", "set", "your", "project",
      "ID.">>

\* The message of deploy.get_config's ValueError.
DeployGetConfigMessage ==
    <<"GOOGLE_CLOUD_PROJECT", "environment", "variable", "is", "required.">>

\* A from_env that also insists on the staging bucket.
from_env_needs_bucket(e) ==
    LET project_id == os_getenv(e, "GOOGLE_CLOUD_PROJECT", None)
        staging_bucket == os_getenv(e, "AGENT_ENGINE_STAGING_BUCKET", None)
    IN  IF ~Truthy(project_id) \/ ~Truthy(staging_bucket)
        THEN Raise(ValueError(FromEnvMessage))
        ELSE Return([type |-> "Config",
                     project_id |-> project_id,
                     location |-> os_getenv(e, "GOOGLE_CLOUD_LOCATION",
                                            PyStr("us-central1")),
                     staging_bucket |-> staging_bucket,
                     model_name |-> os_getenv(e, "MODEL_NAME",
                                              PyStr("gemini-2.0-flash"))])

\* Config.from_env of src/config.py.
from_env(e) ==
    LET project_id == os_getenv(e, "GOOGLE_CLOUD_PROJECT", None)
    IN  IF ~Truthy(project_id)
        THEN Raise(ValueError(FromEnvMessage))
        ELSE Return([type |-> "Config",
                     project_id |-> project_id,
                     location |-> os_getenv(e, "GOOGLE_CLOUD_LOCATION",
                                            PyStr("us-central1")),
                     staging_bucket |-> os_getenv(e, "AGENT_ENGINE_STAGING_BUCKET",
                                                  None),
                     model_name |-> os_getenv(e, "MODEL_NAME",
                                              PyStr("gemini-2.0-flash"))])

\* get_config of src/config.py.
get_config(e) == from_env(e)

\* get_config of src/deploy.py: the same resolution, returning a dict.
deploy_get_config(e) ==
    LET project_id == os_getenv(e, "GOOGLE_CLOUD_PROJECT", None)
    IN  IF ~Truthy(project_id)
        THEN Raise(ValueError(DeployGetConfigMessage))
        ELSE Return([type |-> "dict",
                     project_id |-> project_id,
                     location |-> os_getenv(e, "GOOGLE_CLOUD_LOCATION",
                                            PyStr("us-central1")),
                     staging_bucket |-> os_getenv(e, "AGENT_ENGINE_STAGING_BUCKET",
                                                  None),
                     model_name |-> os_getenv(e, "MODEL_NAME",
                                              PyStr("gemini-2.0-flash"))])

CfgInit ==
    /\ environ \in Environments
    /\ cfgEntry = "none"
    /\ cfgOut = NotCalled
    /\ calcArg = <<>>
    /\ calcCopy = "none"
    /\ calcOut = NotCalled
    /\ prog = "none"
    /\ argv = <<>>
    /\ pc = "idle"
    /\ calls = <<>>
    /\ printed = <<>>
    /\ exitWith = NotCalled
    /\ inputs = <<>>

CallFromEnv ==
    /\ cfgOut = NotCalled
    /\ cfgEntry' = "Config.from_env"
    /\ cfgOut' = from_env(environ)
    /\ UNCHANGED <<environ, calcVars, runVars>>

CallGetConfig ==
    /\ cfgOut = NotCalled
    /\ cfgEntry' = "config.get_config"
    /\ cfgOut' = get_config(environ)
    /\ UNCHANGED <<environ, calcVars, runVars>>

CallDeployGetConfig ==
    /\ cfgOut = NotCalled
    /\ cfgEntry' = "deploy.get_config"
    /\ cfgOut' = deploy_get_config(environ)
    /\ UNCHANGED <<environ, calcVars, runVars>>

CfgNext == CallFromEnv \/ CallGetConfig \/ CallDeployGetConfig

SpecConfig == CfgInit /\ [][CfgNext]_vars

-----------------------------------------------------------------------------
(* Configuration resolution: the properties *)

IsSet(name) == name \in DOMAIN environ

ProjectMissing == ~IsSet("GOOGLE_CLOUD_PROJECT") \/ environ["GOOGLE_CLOUD_PROJECT"] = ""

NamesWord(msg, word) == \E i \in 1..Len(msg) : msg[i] = word

\* C1: whenever GOOGLE_CLOUD_PROJECT is absent or empty, each of the three
\* entry points (Config.from_env, config.get_config, deploy.get_config)
\* raises a ValueError whose message names GOOGLE_CLOUD_PROJECT and returns
\* no configuration, whatever the other three variables are.
C1_MissingProjectRaises ==
    (cfgOut # NotCalled /\ ProjectMissing) =>
        /\ cfgOut.kind = "raise"
        /\ cfgOut.exc.type = "ValueError"
        /\ NamesWord(cfgOut.exc.msg, "GOOGLE_CLOUD_PROJECT")

\* C1's case: the project is set but empty, the three others are set, and
\* deploy.get_config has raised.
C1_Witness ==
    /\ cfgEntry = "deploy.get_config"
    /\ DOMAIN environ = EnvNames
    /\ environ["GOOGLE_CLOUD_PROJECT"] = ""
    /\ environ["AGENT_ENGINE_STAGING_BUCKET"] = "gs://bucket"
    /\ cfgOut.kind = "raise"

\* C2: whenever GOOGLE_CLOUD_PROJECT is a non-empty string, resolution
\* returns a configuration whose project_id is that string unchanged,
\* whether or not the other three variables are set.
C2_ProjectEchoed ==
    (cfgOut # NotCalled /\ ~ProjectMissing) =>
        /\ cfgOut.kind = "return"
        /\ cfgOut.value.project_id = PyStr(environ["GOOGLE_CLOUD_PROJECT"])

\* C2's case: only the project is set, and Config.from_env has returned.
C2_Witness ==
    /\ cfgEntry = "Config.from_env"
    /\ DOMAIN environ = {"GOOGLE_CLOUD_PROJECT"}
    /\ environ["GOOGLE_CLOUD_PROJECT"] = "p2"
    /\ cfgOut.kind = "return"

\* C3: with a non-empty project, location is "us-central1" when
\* GOOGLE_CLOUD_LOCATION is absent and the variable's value when it is
\* present; model_name is "gemini-2.0-flash" when MODEL_NAME is absent and
\* the variable's value when it is present; staging_bucket is None when
\* AGENT_ENGINE_STAGING_BUCKET is absent and its value otherwise.
C3_Defaults ==
    (cfgOut # NotCalled /\ ~ProjectMissing) =>
        /\ cfgOut.kind = "return"
        /\ cfgOut.value.location =
              IF IsSet("GOOGLE_CLOUD_LOCATION")
              THEN PyStr(environ["GOOGLE_CLOUD_LOCATION"])
              ELSE PyStr("us-central1")
        /\ cfgOut.value.model_name =
              IF IsSet("MODEL_NAME")
              THEN PyStr(environ["MODEL_NAME"])
              ELSE PyStr("gemini-2.0-flash")
        /\ cfgOut.value.staging_bucket =
              IF IsSet("AGENT_ENGINE_STAGING_BUCKET")
              THEN PyStr(environ["AGENT_ENGINE_STAGING_BUCKET"])
              ELSE None

\* C3's case: the location is set (and empty), the model and the bucket are
\* absent, and resolution has returned the value for one and the defaults
\* for the others.
C3_Witness ==
    /\ cfgOut.kind = "return"
    /\ DOMAIN environ = {"GOOGLE_CLOUD_PROJECT", "GOOGLE_CLOUD_LOCATION"}
    /\ environ["GOOGLE_CLOUD_LOCATION"] = ""
    /\ cfgOut.value.location = PyStr("")
    /\ cfgOut.value.model_name = PyStr("gemini-2.0-flash")
    /\ cfgOut.value.staging_bucket = None

-----------------------------------------------------------------------------
(* The calculator tool: strings and the character filter                   *)
(*                                                                         *)
(* A Python str is a sequence of one-character strings.                    *)

Digits == {"0", "1", "2", "3", "4", "5", "6", "7", "8", "9"}

\* Characters that start or continue a Python identifier, as far as the
\* inputs of the model use them.
NameChars ==
    {"a", "b", "c", "d", "e", "f", "g", "h", "i", "j", "k", "l", "m", "n",
     "o", "p", "q", "r", "s", "t", "u", "v", "w", "x", "y", "z", "_"}

\* allowed_chars = set("0123456789+-*/(). ")
allowed_chars == Digits \cup {"+", "-", "*", "/", "(", ")", ".", " "}

\* all(c in allowed_chars for c in expression)
AllAllowed(expression) ==
    \A i \in 1..Len(expression) : expression[i] \in allowed_chars

DigitValue(c) ==
    CASE c = "0" -> 0 [] c = "1" -> 1 [] c = "2" -> 2 [] c = "3" -> 3
      [] c = "4" -> 4 [] c = "5" -> 5 [] c = "6" -> 6 [] c = "7" -> 7
      [] c = "8" -> 8 [] c = "9" -> 9

DigitChar(n) ==
    CASE n = 0 -> "0" [] n = 1 -> "1" [] n = 2 -> "2" [] n = 3 -> "3"
      [] n = 4 -> "4" [] n = 5 -> "5" [] n = 6 -> "6" [] n = 7 -> "7"
      [] n = 8 -> "8" [] n = 9 -> "9"

-----------------------------------------------------------------------------
(* Python's tokenizer on the characters an expression can hold             *)

\* No integer of the model exceeds NumCap in absolute value, so that every
\* product of two of them fits TLC's integers; an evaluation that would
\* leave this range is reported as "unmodelled".
NumCap == 32000

RECURSIVE SpanDigits(_, _)
\* The first position at or after i that holds no digit.
SpanDigits(s, i) ==
    IF i <= Len(s) /\ s[i] \in Digits THEN SpanDigits(s, i + 1) ELSE i

RECURSIVE DecValue(_, _, _)
\* The number written by the digits s[i..j-1], or NumCap + 1 when it
\* exceeds NumCap.
DecValue(s, i, j) ==
    IF j <= i THEN 0
    ELSE LET Shift(hi, digit) ==
                 IF hi > NumCap \/ hi * 10 + digit > NumCap THEN NumCap + 1
                 ELSE hi * 10 + digit
         IN  Shift(DecValue(s, i, j - 1), DigitValue(s[j - 1]))

RECURSIVE Pow10(_)
Pow10(k) == IF k = 0 THEN 1 ELSE 10 * Pow10(k - 1)

AllZeros(s, i, j) == \A k \in i..(j - 1) : s[k] = "0"

Tok(kind, text, val, nxt) == [k |-> kind, text |-> text, val |-> val, nxt |-> nxt]

\* The NUMBER token that starts at i (s[i] is a digit, or a "." before a
\* digit): pointfloat = [digitpart] "." digitpart | digitpart ".", or
\* decinteger = nonzerodigit digit* | "0"+.  val is <<"int", n>> or
\* <<"float", n, d>> (the literal is n/d), and the kind is "error" for an
\* integer with a leading zero or for a literal glued to a name.
NumberToken(s, i) ==
    LET Literal(isFloat, j, k, ip, fp, scale) ==
            IF k <= Len(s) /\ s[k] \in NameChars
            THEN Tok("error", "invalid decimal literal", <<>>, k)
            ELSE IF isFloat
            THEN IF ip > NumCap \/ fp > NumCap \/ scale > NumCap
                    \/ ip * scale + fp > NumCap
                 THEN Tok("unmodelled", "float literal", <<>>, k)
                 ELSE Tok("num", "float", <<"float", ip * scale + fp, scale>>, k)
            ELSE IF j - i > 1 /\ s[i] = "0" /\ ~AllZeros(s, i, j)
            THEN Tok("error", "leading zeros in decimal integer literals", <<>>, k)
            ELSE IF ip > NumCap
            THEN Tok("unmodelled", "integer literal", <<>>, k)
            ELSE Tok("num", "int", <<"int", ip>>, k)
        Parts(isFloat, j, k) ==
            Literal(isFloat, j, k, DecValue(s, i, j), DecValue(s, j + 1, k),
                    IF k - (j + 1) > 4 THEN NumCap + 1 ELSE Pow10(k - (j + 1)))
        Fraction(isFloat, j) ==
            Parts(isFloat, j, IF isFloat THEN SpanDigits(s, j + 1) ELSE j)
        Whole(j) == Fraction(j <= Len(s) /\ s[j] = ".", j)
    IN  Whole(SpanDigits(s, i))

RECURSIVE SpanName(_, _)
SpanName(s, i) ==
    IF i <= Len(s) /\ s[i] \in NameChars \cup Digits THEN SpanName(s, i + 1) ELSE i

\* The token that starts at i, where s[i] is not a space.
TokenAt(s, i) ==
    LET c == s[i]
        next == IF i + 1 <= Len(s) THEN s[i + 1] ELSE ""
        next2 == IF i + 2 <= Len(s) THEN s[i + 2] ELSE ""
    IN  CASE c \in Digits \/ (c = "." /\ next \in Digits) -> NumberToken(s, i)
          [] c = "." /\ next = "." /\ next2 = "." -> Tok("op", "...", <<>>, i + 3)
          [] c = "." /\ ~(next \in Digits) /\ ~(next = "." /\ next2 = ".") ->
                Tok("op", ".", <<>>, i + 1)
          [] c = "*" /\ next = "*" -> Tok("op", "**", <<>>, i + 2)
          [] c = "*" /\ next # "*" -> Tok("op", "*", <<>>, i + 1)
          [] c = "/" /\ next = "/" -> Tok("op", "//", <<>>, i + 2)
          [] c = "/" /\ next # "/" -> Tok("op", "/", <<>>, i + 1)
          [] c \in {"+", "-", "(", ")"} -> Tok("op", c, <<>>, i + 1)
          [] c \in NameChars -> Tok("name", "NAME", <<>>, SpanName(s, i))
          [] OTHER -> Tok("op", c, <<>>, i + 1)

RECURSIVE Tokenize(_, _)
\* The tokens of s from position i on; spaces separate tokens and are
\* dropped.  The sequence ends at the first "error" or "unmodelled" token.
Tokenize(s, i) ==
    IF i > Len(s) THEN <<>>
    ELSE IF s[i] = " " THEN Tokenize(s, i + 1)
    ELSE LET Rest(t) == IF t.k \in {"error", "unmodelled"} THEN <<t>>
                        ELSE <<t>> \o Tokenize(s, t.nxt)
         IN  Rest(TokenAt(s, i))

-----------------------------------------------------------------------------
(* Python values of the expressions the allowed characters can write       *)
(*                                                                         *)
(* A number is [t, n, d, nz, how]: an int n (d = 1), or a float.  A float  *)
(* with how = "nearest" is the binary64 nearest to n/d (n/d itself when d  *)
(* is a power of two); any other how is the operation that produced the    *)
(* float from operands that are not exact, and n/d is then the result of   *)
(* the same operations on rationals.  nz marks the float -0.0.             *)

Abs(n) == IF n < 0 THEN -n ELSE n

RECURSIVE Gcd(_, _)
Gcd(a, b) == IF b = 0 THEN a ELSE Gcd(b, a % b)

RECURSIVE IsPow2(_)
IsPow2(d) == d = 1 \/ (d > 1 /\ d % 2 = 0 /\ IsPow2(d \div 2))

\* floor(n / d) for d > 0.
Floor(n, d) == IF n >= 0 THEN n \div d ELSE -((-n + d - 1) \div d)

Ok(v) == [ok |-> TRUE, v |-> v]

Err(type) == [ok |-> FALSE, exc |-> type]

\* The evaluation leaves what the model computes (see NumCap).
Unmodelled == Err("unmodelled")

TupleV == [t |-> "tuple"]

EllipsisV == [t |-> "ellipsis"]

IntV(n) == [t |-> "int", n |-> n, d |-> 1, nz |-> FALSE, how |-> "exact"]

MkInt(n) == IF Abs(n) > NumCap THEN Unmodelled ELSE Ok(IntV(n))

\* The float n/d (d > 0) in lowest terms.
MkFloat(n, d, nz, how) ==
    LET Lowest(g) ==
            IF Abs(n) \div g > NumCap \/ d \div g > NumCap THEN Unmodelled
            ELSE Ok([t |-> "float", n |-> n \div g, d |-> d \div g,
                     nz |-> (n = 0 /\ nz), how |-> how])
    IN  Lowest(Gcd(Abs(n), d))

IsNumber(v) == v.t \in {"int", "float"}

\* The value is exactly n/d.
Exact(v) == v.t = "int" \/ (v.how = "nearest" /\ IsPow2(v.d))

\* Negative, the float -0.0 included.
Negative(v) == v.n < 0 \/ (v.n = 0 /\ v.nz)

\* The value is fixed by n/d: an int, or the float nearest to n/d.
Determined(v) == v.t = "int" \/ v.how = "nearest"

\* The float that an operation on a and b produces, n/d being the result on
\* rationals: correctly rounded when both operands are exact, and named by
\* the operation otherwise.  A rounded sum or difference whose rational
\* shadow is 0 is 0.0 when the operands are known to be opposite floats
\* (each is fixed by its rational, or they are one and the same float);
\* otherwise it may or may not be 0.0 and is not modelled.
FloatResult(op, a, b, n, d, nz) ==
    IF Exact(a) /\ Exact(b) THEN MkFloat(n, d, nz, "nearest")
    ELSE IF n # 0 THEN MkFloat(n, d, FALSE, <<op, a, b>>)
    ELSE IF (Determined(a) /\ Determined(b)) \/ (op = "-" /\ a = b)
    THEN MkFloat(0, 1, FALSE, "nearest")
    ELSE Unmodelled

\* a + b
PyAdd(a, b) ==
    IF a.t = "tuple" /\ b.t = "tuple" THEN Ok(TupleV)
    ELSE IF ~(IsNumber(a) /\ IsNumber(b)) THEN Err("TypeError")
    ELSE IF a.t = "int" /\ b.t = "int" THEN MkInt(a.n + b.n)
    ELSE FloatResult("+", a, b, a.n * b.d + b.n * a.d, a.d * b.d,
                     a.n = 0 /\ b.n = 0 /\ Negative(a) /\ Negative(b))

\* a - b
PySub(a, b) ==
    IF ~(IsNumber(a) /\ IsNumber(b)) THEN Err("TypeError")
    ELSE IF a.t = "int" /\ b.t = "int" THEN MkInt(a.n - b.n)
    ELSE FloatResult("-", a, b, a.n * b.d - b.n * a.d, a.d * b.d,
                     a.n = 0 /\ b.n = 0 /\ Negative(a) /\ ~Negative(b))

\* a * b
PyMul(a, b) ==
    IF (a.t = "tuple" /\ b.t = "int") \/ (a.t = "int" /\ b.t = "tuple")
    THEN Ok(TupleV)
    ELSE IF ~(IsNumber(a) /\ IsNumber(b)) THEN Err("TypeError")
    ELSE IF a.t = "int" /\ b.t = "int" THEN MkInt(a.n * b.n)
    ELSE IF a.n = 0 \/ b.n = 0
    THEN MkFloat(0, 1, Negative(a) # Negative(b), "nearest")
    ELSE FloatResult("*", a, b, a.n * b.n, a.d * b.d, FALSE)

\* a / b: true division, a float whatever the operands.
PyTrueDiv(a, b) ==
    IF ~(IsNumber(a) /\ IsNumber(b)) THEN Err("TypeError")
    ELSE IF b.n = 0 THEN Err("ZeroDivisionError")
    ELSE IF a.n = 0
    THEN MkFloat(0, 1, Negative(a) # Negative(b), "nearest")
    ELSE FloatResult("/", a, b,
                     (IF b.n < 0 THEN -1 ELSE 1) * a.n * b.d, a.d * Abs(b.n),
                     FALSE)

\* a // b: floor division.
PyFloorDiv(a, b) ==
    IF ~(IsNumber(a) /\ IsNumber(b)) THEN Err("TypeError")
    ELSE IF b.n = 0 THEN Err("ZeroDivisionError")
    ELSE IF ~(Exact(a) /\ Exact(b)) THEN Unmodelled
    ELSE LET Quotient(q) ==
                 IF a.t = "int" /\ b.t = "int" THEN MkInt(q)
                 ELSE MkFloat(q, 1, a.n = 0 /\ (Negative(a) # Negative(b)),
                              "nearest")
         IN  Quotient(Floor((IF b.n < 0 THEN -1 ELSE 1) * a.n * b.d,
                            a.d * Abs(b.n)))

RECURSIVE PowAcc(_, _, _)
\* acc * a^e for a >= 2, or NumCap + 1 when it exceeds NumCap.
PowAcc(a, e, acc) ==
    IF e = 0 THEN acc
    ELSE IF acc * a > NumCap THEN NumCap + 1
    ELSE PowAcc(a, e - 1, acc * a)

\* a^e for a >= 0 and e >= 0, or NumCap + 1 when it exceeds NumCap.
PowCapped(a, e) ==
    IF e = 0 THEN 1 ELSE IF a = 0 THEN 0 ELSE IF a = 1 THEN 1
    ELSE PowAcc(a, e, 1)

\* a ** b.  The results libm's pow gives without a guarantee of correct
\* rounding (a float that is no power of two from a negative or fractional
\* exponent, a complex number) are not modelled.
PyPow(a, b) ==
    IF ~(IsNumber(a) /\ IsNumber(b)) THEN Err("TypeError")
    ELSE IF ~(Exact(a) /\ Exact(b)) THEN Unmodelled
    ELSE IF b.d = 1
    THEN LET Power(e, pn, pd, sign) ==
                 IF a.n = 0 /\ b.n < 0 THEN Err("ZeroDivisionError")
                 ELSE IF pn > NumCap \/ pd > NumCap THEN Unmodelled
                 ELSE IF a.t = "int" /\ b.t = "int" /\ b.n >= 0
                 THEN MkInt(sign * pn)
                 ELSE IF b.n >= 0
                 THEN MkFloat(sign * pn, pd, Negative(a) /\ e % 2 = 1,
                              "nearest")
                 ELSE IF IsPow2(pn)
                 THEN MkFloat(sign * pd, pn, FALSE, "nearest")
                 ELSE Unmodelled
         IN  Power(Abs(b.n), PowCapped(Abs(a.n), Abs(b.n)),
                   PowCapped(a.d, Abs(b.n)),
                   IF a.n < 0 /\ Abs(b.n) % 2 = 1 THEN -1 ELSE 1)
    ELSE IF a.n = 0
    THEN IF b.n < 0 THEN Err("ZeroDivisionError")
         ELSE MkFloat(0, 1, FALSE, "nearest")
    ELSE IF a.n = 1 /\ a.d = 1 THEN MkFloat(1, 1, FALSE, "nearest")
    ELSE Unmodelled

\* -a
PyNeg(a) ==
    IF ~IsNumber(a) THEN Err("TypeError")
    ELSE IF a.t = "int" THEN MkInt(-a.n)
    ELSE IF a.how = "nearest" THEN MkFloat(-a.n, a.d, ~a.nz, "nearest")
    ELSE MkFloat(-a.n, a.d, FALSE, <<"neg", a>>)

\* +a
PyPos(a) == IF ~IsNumber(a) THEN Err("TypeError") ELSE Ok(a)

BinOp(op, a, b) ==
    CASE op = "+" -> PyAdd(a, b)
      [] op = "-" -> PySub(a, b)
      [] op = "*" -> PyMul(a, b)
      [] op = "/" -> PyTrueDiv(a, b)
      [] op = "//" -> PyFloorDiv(a, b)
      [] op = "**" -> PyPow(a, b)

UnOp(op, a) == IF op = "-" THEN PyNeg(a) ELSE PyPos(a)

\* The value of a NUMBER token.
LiteralValue(val) ==
    IF val[1] = "int" THEN MkInt(val[2])
    ELSE MkFloat(val[2], val[3], FALSE, "nearest")

-----------------------------------------------------------------------------
(* str(result)                                                             *)

RECURSIVE NatDigits(_)
\* The decimal digits of n >= 0, most significant first.
NatDigits(n) ==
    IF n < 10 THEN <<DigitChar(n)>>
    ELSE NatDigits(n \div 10) \o <<DigitChar(n % 10)>>

IntStr(n) == IF n < 0 THEN <<"-">> \o NatDigits(-n) ELSE NatDigits(n)

\* The longest decimal a float's text is computed for: a decimal of at
\* most 15 significant digits is the shortest text that reads back as the
\* binary64 nearest to it, which is what repr prints.
ReprExactDigits == 15

RECURSIVE FracDigits(_, _, _)
\* The digits of r/d (0 <= r < d) after the decimal point, at most k of
\* them; the sequence ends with "?" when the expansion goes on after k.
FracDigits(r, d, k) ==
    IF r = 0 THEN <<>>
    ELSE IF k = 0 THEN <<"?">>
    ELSE <<DigitChar((r * 10) \div d)>> \o FracDigits((r * 10) % d, d, k - 1)

RECURSIVE LeadingZeros(_)
LeadingZeros(ds) ==
    IF ds # <<>> /\ ds[1] = "0" THEN 1 + LeadingZeros(Tail(ds)) ELSE 0

\* r * 10 stays an integer of TLC for every remainder r < d.
FracDigitsComputable(d) == d <= 200000000

RECURSIVE Describe(_)
\* A name for a float whose digits are not computed: the rational it is
\* nearest to, or the operation it is the rounded result of.
Describe(v) ==
    IF v.t = "int" THEN IntStr(v.n)
    ELSE IF v.how = "nearest"
    THEN <<"nearest(">> \o IntStr(v.n) \o <<"/">> \o IntStr(v.d) \o <<")">>
    ELSE IF v.how[1] = "neg"
    THEN <<"-(">> \o Describe(v.how[2]) \o <<")">>
    ELSE <<"(">> \o Describe(v.how[2]) \o <<v.how[1]>>
             \o Describe(v.how[3]) \o <<")">>

\* repr of a float: "-0.0"; the decimal expansion when it ends within
\* ReprExactDigits significant digits, in positional notation from 1e-4 on
\* and in exponent notation below; and otherwise a name for the shortest
\* text that reads back as that float.
FloatStr(v) ==
    LET sign == IF Negative(v) THEN <<"-">> ELSE <<>>
        Positional(ip, fr) ==
            sign \o NatDigits(ip) \o <<".">>
                 \o (IF fr = <<>> THEN <<"0">> ELSE fr)
        Exponent(mant, expo) ==
            sign \o <<mant[1]>>
                 \o (IF Len(mant) > 1 THEN <<".">> \o Tail(mant) ELSE <<>>)
                 \o <<"e", "-">>
                 \o (IF expo < 10 THEN <<"0">> ELSE <<>>) \o NatDigits(expo)
        Text(ip, fr, lz, sig) ==
            IF ~(v.how = "nearest" /\ (fr = <<>> \/ fr[Len(fr)] # "?")
                   /\ sig <= ReprExactDigits)
            THEN <<"repr(">> \o Describe(v) \o <<")">>
            ELSE IF ip > 0 \/ lz < 4 THEN Positional(ip, fr)
            ELSE Exponent(SubSeq(fr, lz + 1, Len(fr)), lz + 1)
        Significant(ip, fr, lz) ==
            Text(ip, fr, lz,
                 IF ip > 0 THEN Len(NatDigits(ip)) + Len(fr) ELSE Len(fr) - lz)
        Fraction(ip, fr) == Significant(ip, fr, LeadingZeros(fr))
    IN  Fraction(Abs(v.n) \div v.d,
                 IF FracDigitsComputable(v.d)
                 THEN FracDigits(Abs(v.n) % v.d, v.d, ReprExactDigits + 5)
                 ELSE <<"?">>)

\* str(value)
PyStrOf(v) ==
    CASE v.t = "int" -> IntStr(v.n)
      [] v.t = "float" -> FloatStr(v)
      [] v.t = "tuple" -> <<"(", ")">>
      [] v.t = "ellipsis" -> <<"E", "l", "l", "i", "p", "s", "i", "s">>

-----------------------------------------------------------------------------
(* Python's expression grammar over these tokens, as eval compiles it:     *)
(*   sum:     sum ('+' | '-') term | term                                  *)
(*   term:    term ('*' | '/' | '//') factor | factor                      *)
(*   factor:  ('+' | '-') factor | power                                   *)
(*   power:   primary '**' factor | primary                                *)
(*   primary: primary '(' [argument] ')' | atom                            *)
(*   atom:    NUMBER | NAME | '...' | '(' ')' | '(' sum ')'                *)
(* A parse is [ok, ast, pos]: the tree and the position after it.          *)

Fail == [ok |-> FALSE, ast |-> <<>>, pos |-> 0]

Parsed(ast, pos) == [ok |-> TRUE, ast |-> ast, pos |-> pos]

IsOp(ts, i, text) == i <= Len(ts) /\ ts[i].k = "op" /\ ts[i].text = text

RECURSIVE ParseSum(_, _), SumRest(_, _, _), ParseTerm(_, _), TermRest(_, _, _),
          ParseFactor(_, _), ParsePower(_, _), ParsePrimary(_, _),
          PrimaryRest(_, _, _), ParseAtom(_, _), SumRestFlat(_, _, _)

ParseAtom(ts, i) ==
    IF i > Len(ts) THEN Fail
    ELSE IF ts[i].k = "num" THEN Parsed(<<"num", ts[i].val>>, i + 1)
    ELSE IF ts[i].k = "name" THEN Parsed(<<"name">>, i + 1)
    ELSE IF IsOp(ts, i, "...") THEN Parsed(<<"ellipsis">>, i + 1)
    ELSE IF IsOp(ts, i, "(")
    THEN IF IsOp(ts, i + 1, ")") THEN Parsed(<<"tuple">>, i + 2)
         ELSE LET Close(e) == IF e.ok /\ IsOp(ts, e.pos, ")")
                              THEN Parsed(e.ast, e.pos + 1)
                              ELSE Fail
              IN  Close(ParseSum(ts, i + 1))
    ELSE Fail

\* The trailers of a primary: a call with no argument, one argument, one
\* starred or one double-starred argument (a comma cannot be written).
PrimaryRest(ts, i, f) ==
    IF ~IsOp(ts, i, "(") THEN Parsed(f, i)
    ELSE IF IsOp(ts, i + 1, ")")
    THEN PrimaryRest(ts, i + 2, <<"call", f, <<"noarg">>>>)
    ELSE LET Argument(starred, e) ==
                 IF e.ok /\ IsOp(ts, e.pos, ")")
                 THEN PrimaryRest(ts, e.pos + 1,
                                  <<"call", f,
                                    IF starred THEN <<"star", e.ast>>
                                    ELSE e.ast>>)
                 ELSE Fail
             Call(starred) ==
                 Argument(starred, ParseSum(ts, IF starred THEN i + 2 ELSE i + 1))
         IN  Call(IsOp(ts, i + 1, "*") \/ IsOp(ts, i + 1, "**"))

ParsePrimary(ts, i) ==
    LET Trailers(a) == IF a.ok THEN PrimaryRest(ts, a.pos, a.ast) ELSE Fail
    IN  Trailers(ParseAtom(ts, i))

ParsePower(ts, i) ==
    LET Raised(p, f) ==
            IF f.ok THEN Parsed(<<"bin", "**", p.ast, f.ast>>, f.pos) ELSE Fail
        Base(p) ==
            IF ~p.ok THEN Fail
            ELSE IF IsOp(ts, p.pos, "**")
            THEN Raised(p, ParseFactor(ts, p.pos + 1))
            ELSE p
    IN  Base(ParsePrimary(ts, i))

ParseFactor(ts, i) ==
    IF IsOp(ts, i, "+") \/ IsOp(ts, i, "-")
    THEN LET Signed(f) ==
                 IF f.ok THEN Parsed(<<"un", ts[i].text, f.ast>>, f.pos)
                 ELSE Fail
         IN  Signed(ParseFactor(ts, i + 1))
    ELSE ParsePower(ts, i)

TermRest(ts, i, left) ==
    IF IsOp(ts, i, "*") \/ IsOp(ts, i, "/") \/ IsOp(ts, i, "//")
    THEN LET Right(f) ==
                 IF f.ok
                 THEN TermRest(ts, f.pos, <<"bin", ts[i].text, left, f.ast>>)
                 ELSE Fail
         IN  Right(ParseFactor(ts, i + 1))
    ELSE Parsed(left, i)

ParseTerm(ts, i) ==
    LET First(f) == IF f.ok THEN TermRest(ts, f.pos, f.ast) ELSE Fail
    IN  First(ParseFactor(ts, i))

\* A sum that takes every operator as it comes, left to right, whatever
\* its precedence.
SumRestFlat(ts, i, left) ==
    IF IsOp(ts, i, "+") \/ IsOp(ts, i, "-") \/ IsOp(ts, i, "*")
       \/ IsOp(ts, i, "/")
    THEN LET Right(f) ==
                 IF f.ok
                 THEN SumRestFlat(ts, f.pos,
                                  <<"bin", ts[i].text, left, f.ast>>)
                 ELSE Fail
         IN  Right(ParseFactor(ts, i + 1))
    ELSE Parsed(left, i)

SumRest(ts, i, left) ==
    IF IsOp(ts, i, "+") \/ IsOp(ts, i, "-")
    THEN LET Right(t) ==
                 IF t.ok
                 THEN SumRest(ts, t.pos, <<"bin", ts[i].text, left, t.ast>>)
                 ELSE Fail
         IN  Right(ParseTerm(ts, i + 1))
    ELSE Parsed(left, i)

ParseSum(ts, i) ==
    LET First(t) == IF t.ok THEN SumRest(ts, t.pos, t.ast) ELSE Fail
    IN  First(ParseTerm(ts, i))

RECURSIVE EvalAst(_)
\* The value of a tree, operands left to right; the first exception ends
\* the evaluation.  Nothing that can be written is callable, so a call
\* raises TypeError once its function and its argument are evaluated; what
\* a name is bound to is not part of the model.
EvalAst(ast) ==
    LET Unary(x) == IF x.ok THEN UnOp(ast[2], x.v) ELSE x
        Right(l, r) == IF r.ok THEN BinOp(ast[2], l.v, r.v) ELSE r
        Left(l) == IF ~l.ok THEN l ELSE Right(l, EvalAst(ast[4]))
        Argument(x) == IF x.ok THEN Err("TypeError") ELSE x
        Function(f) ==
            IF ~f.ok THEN f
            ELSE IF ast[3][1] = "noarg" THEN Err("TypeError")
            ELSE Argument(EvalAst(IF ast[3][1] = "star" THEN ast[3][2]
                                  ELSE ast[3]))
    IN  CASE ast[1] = "num" -> LiteralValue(ast[2])
          [] ast[1] = "name" -> Unmodelled
          [] ast[1] = "tuple" -> Ok(TupleV)
          [] ast[1] = "ellipsis" -> Ok(EllipsisV)
          [] ast[1] = "un" -> Unary(EvalAst(ast[3]))
          [] ast[1] = "bin" -> Left(EvalAst(ast[3]))
          [] ast[1] = "call" -> Function(EvalAst(ast[2]))

\* eval(expression): tokenize, compile the whole string (SyntaxError before
\* anything is evaluated), then evaluate.
eval(s) ==
    LET Compiled(ts, p) ==
            IF ~(p.ok /\ p.pos = Len(ts) + 1) THEN Err("SyntaxError")
            ELSE EvalAst(p.ast)
        Tokens(ts, last) ==
            IF last = "unmodelled" THEN Unmodelled
            ELSE IF last = "error" \/ ts = <<>> THEN Err("SyntaxError")
            ELSE Compiled(ts, ParseSum(ts, 1))
        Source(ts) == Tokens(ts, IF ts = <<>> THEN "" ELSE ts[Len(ts)].k)
    IN  Source(Tokenize(s, 1))

-----------------------------------------------------------------------------
(* calculate, in its three copies *)

ErrorPrefix == <<"E", "r", "r", "o", "r", ":", " ">>

\* src/agents/adk_agent.py's message for a character outside the set.
InvalidCharactersLong ==
    ErrorPrefix \o <<"Invalid characters in expression.",
                     " Only numbers and basic operators allowed.">>

\* The message of the two other copies.
InvalidCharactersShort == ErrorPrefix \o <<"Invalid characters in expression.">>

\* str(e) of the exception eval raised, one text per exception class.
ExceptionText(exc) ==
    CASE exc = "SyntaxError" -> "invalid syntax"
      [] exc = "ZeroDivisionError" -> "division by zero"
      [] exc = "TypeError" -> "unsupported operand or not callable"
      [] OTHER -> exc

\* The exception classes eval raises here, all subclasses of Exception.
ExceptionSubclasses ==
    {"SyntaxError", "ZeroDivisionError", "TypeError", "NameError",
     "ValueError", "OverflowError", "MemoryError", "RecursionError"}

\* A handler that catches the division by zero only.
CatchesZeroDivisionOnly(exc) == exc = "ZeroDivisionError"

\* except Exception as e
Catches(exc) == exc \in ExceptionSubclasses

\* What one call does: out is Return(the string) or Raise(the exception
\* that leaves the call), evalArgs the arguments eval was called with.
CalcOutcome(out, evalArgs) == [out |-> out, evalArgs |-> evalArgs]

\* A body whose try block evaluates before the characters are checked.
CalculateEvalFirst(expression, invalid) ==
    LET Try(result) ==
            IF ~AllAllowed(expression)
            THEN CalcOutcome(Return(invalid), <<expression>>)
            ELSE CalcOutcome(IF result.ok THEN Return(PyStrOf(result.v))
                             ELSE IF Catches(result.exc)
                             THEN Return(ErrorPrefix
                                           \o <<ExceptionText(result.exc)>>)
                             ELSE Raise(result.exc),
                             <<expression>>)
    IN  Try(eval(expression))

\* The body shared by the three copies, which differ in the message:
\* the character check and its early return, then eval and str in a try
\* block whose handler returns the exception's text.
CalculateBody(expression, invalid) ==
    IF ~AllAllowed(expression) THEN CalcOutcome(Return(invalid), <<>>)
    ELSE LET Try(result) ==
                 CalcOutcome(IF result.ok THEN Return(PyStrOf(result.v))
                             ELSE IF Catches(result.exc)
                             THEN Return(ErrorPrefix
                                           \o <<ExceptionText(result.exc)>>)
                             ELSE Raise(result.exc),
                             <<expression>>)
         IN  Try(eval(expression))

\* calculate of src/agents/adk_agent.py.
calculate(expression) == CalculateBody(expression, InvalidCharactersLong)

\* calculate of agent/__init__.py.
agent_calculate(expression) == CalculateBody(expression, InvalidCharactersShort)

\* calculate of create_agent_for_deployment in src/deploy.py.
deploy_calculate(expression) == CalculateBody(expression, InvalidCharactersShort)

-----------------------------------------------------------------------------
(* Calls of calculate *)

\* The strings of at most n characters of alphabet A.
Strings(A, n) == UNION {[1..k -> A] : k \in 0..n}

\* The inputs the specification and the documentation name.
NamedInputs ==
    {<<"2", " ", "+", " ", "2", " ", "*", " ", "3">>,
     <<"1", "0", " ", "/", " ", "0">>,
     <<"2", ";", " ", "i", "m", "p", "o", "r", "t", " ", "o", "s">>,
     <<"(", "1", "+", "2">>,
     <<"(", "1", "+">>,
     <<>>}

\* The characters of the short inputs: allowed ones of every kind, and two
\* that are not allowed.
Alphabet == {"0", "1", "2", "3", "+", "-", "*", "/", "(", ")", ".", " ", ";", "a"}

\* The longest input drawn from Alphabet.
MaxLen == 3

\* The evaluation of s stays within what the model computes.
Modelled(s) == ~AllAllowed(s) \/ eval(s) # Unmodelled

CalcInputs == {s \in Strings(Alphabet, MaxLen) \cup NamedInputs : Modelled(s)}

CalcInit ==
    /\ environ = << >>
    /\ cfgEntry = "none"
    /\ cfgOut = NotCalled
    /\ calcArg \in CalcInputs
    /\ calcCopy = "none"
    /\ calcOut = NotCalled
    /\ prog = "none"
    /\ argv = <<>>
    /\ pc = "idle"
    /\ calls = <<>>
    /\ printed = <<>>
    /\ exitWith = NotCalled
    /\ inputs = <<>>

\* calculate of src/agents/adk_agent.py is called.
CallCalculate ==
    /\ calcOut = NotCalled
    /\ calcCopy' = "adk_agent"
    /\ calcOut' = calculate(calcArg)
    /\ UNCHANGED <<calcArg, cfgVars, runVars>>

\* calculate of agent/__init__.py is called.
CallAgentCalculate ==
    /\ calcOut = NotCalled
    /\ calcCopy' = "agent"
    /\ calcOut' = agent_calculate(calcArg)
    /\ UNCHANGED <<calcArg, cfgVars, runVars>>

\* calculate of src/deploy.py is called.
CallDeployCalculate ==
    /\ calcOut = NotCalled
    /\ calcCopy' = "deploy"
    /\ calcOut' = deploy_calculate(calcArg)
    /\ UNCHANGED <<calcArg, cfgVars, runVars>>

CalcNext == CallCalculate \/ CallAgentCalculate \/ CallDeployCalculate

SpecCalc == CalcInit /\ [][CalcNext]_vars

-----------------------------------------------------------------------------
(* calculate: the properties *)

\* The set of characters the specification gives: 0-9 + - * / ( ) . space.
SpecifiedChars ==
    {"0", "1", "2", "3", "4", "5", "6", "7", "8", "9",
     "+", "-", "*", "/", "(", ")", ".", " "}

HasForeignChar(s) == \E i \in 1..Len(s) : s[i] \notin SpecifiedChars

IsErrorString(r) == Len(r) > Len(ErrorPrefix) /\ SubSeq(r, 1, Len(ErrorPrefix)) = ErrorPrefix

CitesInvalidCharacters(r) ==
    IsErrorString(r) /\ \E i \in 1..Len(r) : r[i] = "Invalid characters in expression."

IsPyStr(r) == DOMAIN r = 1..Len(r) /\ \A i \in 1..Len(r) : r[i] \in STRING

Called == calcOut # NotCalled

\* C4: for an input with a character outside 0-9 + - * / ( ) . space, each
\* of the three copies of calculate returns an error string citing
\* invalid characters, and eval has not been called in that call.
C4_ForeignCharNeverEvaluated ==
    (Called /\ HasForeignChar(calcArg)) =>
        /\ calcOut.out.kind = "return"
        /\ CitesInvalidCharacters(calcOut.out.value)
        /\ calcOut.evalArgs = <<>>

\* C4's case: the deployed copy has been called with "2; import os".
C4_Witness ==
    /\ calcCopy = "deploy"
    /\ calcArg = <<"2", ";", " ", "i", "m", "p", "o", "r", "t", " ", "o", "s">>
    /\ calcOut.out = Return(InvalidCharactersShort)
    /\ calcOut.evalArgs = <<>>

\* The inputs the specification names as passing the filter and failing in
\* evaluation: "10 / 0", "(1+2", "(1+" and the empty string.
FailingExamples ==
    {<<"1", "0", " ", "/", " ", "0">>, <<"(", "1", "+", "2">>,
     <<"(", "1", "+">>, <<>>}

\* C5: for every input, calculate returns a string and no exception leaves
\* the call; when the input passes the character filter and its
\* evaluation fails (division by zero, a malformed expression, the empty
\* string), the string returned is an error string.
C5_AlwaysReturnsAString ==
    Called =>
        /\ calcOut.out.kind = "return"
        /\ IsPyStr(calcOut.out.value)
        /\ (calcArg \in FailingExamples => IsErrorString(calcOut.out.value))
        /\ (~HasForeignChar(calcArg) /\ ~eval(calcArg).ok
              => IsErrorString(calcOut.out.value))

\* C5's case: calculate("10 / 0") has returned the text of the
\* ZeroDivisionError.
C5_Witness ==
    /\ calcCopy = "adk_agent"
    /\ calcArg = <<"1", "0", " ", "/", " ", "0">>
    /\ calcOut.out = Return(ErrorPrefix \o <<"division by zero">>)
    /\ calcOut.evalArgs = <<calcArg>>

-----------------------------------------------------------------------------
(* Basic arithmetic, as the specification describes it: numerals, the      *)
(* binary operators + - * / with * and / binding tighter and all four      *)
(* associating to the left, the signs + and -, and parentheses.  The       *)
(* value of a well-formed expression is defined by splitting it at its     *)
(* last operator of lowest precedence outside parentheses.                 *)

RECURSIVE SpanNumeral(_, _)
\* The first position at or after i that holds neither a digit nor a point.
SpanNumeral(s, i) ==
    IF i <= Len(s) /\ s[i] \in Digits \cup {"."} THEN SpanNumeral(s, i + 1) ELSE i

\* The positions of the points in s[i..j-1].
Points(s, i, j) == {k \in i..(j - 1) : s[k] = "."}

\* The numeral s[i..j-1]: digits with at most one point.  With a point it
\* is a float, without one an int.
ArithNumeral(s, i, j) ==
    LET pts == Points(s, i, j)
        p == CHOOSE k \in pts : TRUE
    IN  IF Cardinality(pts) > 1 \/ j - i = Cardinality(pts)
        THEN [k |-> "bad"]
        ELSE IF pts = {}
        THEN [k |-> "num", v |-> MkInt(DecValue(s, i, j))]
        ELSE IF j - 1 - p > 4 \/ DecValue(s, i, p) > NumCap
                \/ DecValue(s, p + 1, j) > NumCap
                \/ DecValue(s, i, p) * Pow10(j - 1 - p) + DecValue(s, p + 1, j) > NumCap
        THEN [k |-> "num", v |-> Unmodelled]
        ELSE [k |-> "num",
              v |-> MkFloat(DecValue(s, i, p) * Pow10(j - 1 - p)
                              + DecValue(s, p + 1, j),
                            Pow10(j - 1 - p), FALSE, "nearest")]

RECURSIVE ArithTokens(_, _)
\* The numerals and symbols of s from i on, spaces dropped.
ArithTokens(s, i) ==
    IF i > Len(s) THEN <<>>
    ELSE IF s[i] = " " THEN ArithTokens(s, i + 1)
    ELSE IF s[i] \in Digits \cup {"."}
    THEN <<ArithNumeral(s, i, SpanNumeral(s, i))>>
           \o ArithTokens(s, SpanNumeral(s, i))
    ELSE IF s[i] \in {"+", "-", "*", "/", "(", ")"}
    THEN <<[k |-> s[i]]>> \o ArithTokens(s, i + 1)
    ELSE <<[k |-> "bad"]>> \o ArithTokens(s, i + 1)

\* How many parentheses are open before position k of ts[lo..].
Depth(ts, lo, k) ==
    Cardinality({m \in lo..(k - 1) : ts[m].k = "("})
      - Cardinality({m \in lo..(k - 1) : ts[m].k = ")"})

\* Position k of ts[lo..hi] holds a binary operator of ops outside every
\* parenthesis: it follows a numeral or a closing parenthesis.
BinaryAt(ts, lo, hi, k, ops) ==
    /\ ts[k].k \in ops
    /\ k > lo
    /\ ts[k - 1].k \in {"num", ")"}
    /\ Depth(ts, lo, k) = 0

Splits(ts, lo, hi, ops) == {k \in lo..hi : BinaryAt(ts, lo, hi, k, ops)}

Max(S) == CHOOSE x \in S : \A y \in S : y <= x

Malformed == Err("malformed")

RECURSIVE ArithValue(_, _, _)
\* The value of ts[lo..hi]: Ok(v), Malformed, or the failure of an
\* operation (a division by zero).
ArithValue(ts, lo, hi) ==
    LET sums == Splits(ts, lo, hi, {"+", "-"})
        prods == Splits(ts, lo, hi, {"*", "/"})
        k == IF sums # {} THEN Max(sums) ELSE Max(prods)
        l == ArithValue(ts, lo, k - 1)
        r == ArithValue(ts, k + 1, hi)
        x == ArithValue(ts, lo + 1, hi)
    IN  IF lo > hi THEN Malformed
        ELSE IF \E m \in lo..hi : ts[m].k = "bad" THEN Malformed
        ELSE IF sums # {} \/ prods # {}
        THEN IF l = Malformed \/ r = Malformed THEN Malformed
             ELSE IF ~l.ok THEN l
             ELSE IF ~r.ok THEN r
             ELSE BinOp(ts[k].k, l.v, r.v)
        ELSE IF ts[lo].k \in {"+", "-"}
        THEN IF x.ok THEN UnOp(ts[lo].k, x.v) ELSE x
        ELSE IF ts[lo].k = "(" /\ ts[hi].k = ")" /\ hi > lo
                /\ \A m \in (lo + 1)..hi : Depth(ts, lo, m) > 0
                /\ Depth(ts, lo, hi + 1) = 0
        THEN ArithValue(ts, lo + 1, hi - 1)
        ELSE IF lo = hi /\ ts[lo].k = "num" THEN ts[lo].v
        ELSE Malformed

\* The value of s as a basic arithmetic expression.
Arithmetic(s) == ArithValue(ArithTokens(s, 1), 1, Len(ArithTokens(s, 1)))

\* s is a well-formed expression of numerals, + - * /, parentheses and
\* spaces.
WellFormed(s) == Arithmetic(s) # Malformed

\* The characters of the arithmetic inputs.
ArithAlphabet == {"2", "3", "+", "-", "*", "/", "(", ")"}

\* The longest input drawn from ArithAlphabet.
MaxArithLen == 5

\* Longer expressions in which parentheses override precedence and
\* associativity.
ParenthesizedInputs ==
    {<<"(", "2", "+", "2", ")", "*", "3">>,
     <<"2", "*", "(", "2", "+", "3", ")">>,
     <<"2", "-", "(", "3", "-", "2", ")">>,
     <<"2", "/", "(", "3", "/", "2", ")">>,
     <<"(", "2", "-", "3", ")", "/", "(", "3", "-", "2", ")">>,
     <<"1", ".", "5", " ", "*", " ", "(", "2", " ", "+", " ", "2", ")">>,
     <<"3", "/", "(", "2", "-", "2", ")">>}

ArithInputs ==
    CalcInputs \cup
    {s \in Strings(ArithAlphabet, MaxArithLen) \cup ParenthesizedInputs : Modelled(s)}

ArithInit ==
    /\ environ = << >>
    /\ cfgEntry = "none"
    /\ cfgOut = NotCalled
    /\ calcArg \in ArithInputs
    /\ calcCopy = "none"
    /\ calcOut = NotCalled
    /\ prog = "none"
    /\ argv = <<>>
    /\ pc = "idle"
    /\ calls = <<>>
    /\ printed = <<>>
    /\ exitWith = NotCalled
    /\ inputs = <<>>

SpecArith == ArithInit /\ [][CalcNext]_vars

\* C6: for a well-formed expression of numerals, + - * /, parentheses and
\* spaces whose evaluation in calculate does not fail, calculate returns
\* the text of the value the expression has as basic arithmetic (* and /
\* before + and -, left to right, parentheses first); and
\* calculate("2 + 2 * 3") returns "8".
C6_ArithmeticValue ==
    /\ (Called /\ calcOut.out.kind = "return" /\ WellFormed(calcArg)
          /\ ~IsErrorString(calcOut.out.value))
         => /\ Arithmetic(calcArg).ok
            /\ calcOut.out.value = PyStrOf(Arithmetic(calcArg).v)
    /\ (Called /\ calcArg = <<"2", " ", "+", " ", "2", " ", "*", " ", "3">>)
         => calcOut.out = Return(<<"8">>)

\* C6's case: calculate("2 + 2 * 3") has returned "8".
C6_Witness ==
    /\ calcCopy = "adk_agent"
    /\ calcArg = <<"2", " ", "+", " ", "2", " ", "*", " ", "3">>
    /\ calcOut.out = Return(<<"8">>)


-----------------------------------------------------------------------------
(* Programs: what they print and what they call                            *)
(*                                                                         *)
(* A program runs statement by statement; every call it makes to the SDK   *)
(* or the platform is logged with its outcome, and the platform decides    *)
(* the outcome: any such call may raise.                                   *)

\* print_header, print_success, print_error, print_info, print_response of
\* src/utils.py (src/deploy.py defines the first four again, word for
\* word), and the built-in print.
print_header(title) == <<"header", title>>

print_success(message) == <<"success", message>>

print_error(message) == <<"error", message>>

print_info(message) == <<"info", message>>

print_response(response) == <<"response", response>>

print_plain(text) == <<"plain", text>>

\* One call: the function, its arguments, and whether it returned (ok) or
\* raised.
Call(fn, args, ok) == [fn |-> fn, args |-> args, ok |-> ok]

\* The exception a failing call of the platform raises.
PlatformError == [type |-> "Exception", msg |-> <<"platform failure">>]

\* str(e)
ExcStr(e) == e.msg

-----------------------------------------------------------------------------
(* The deployment command line: src/deploy.py run as a program.  The      *)
(* environment is the one load_dotenv has left.                            *)

\* What argparse gives: the action, --name (None when it is not given)
\* and --description (its default when it is not given).
DeployArgs ==
    [action : {"deploy", "list", "delete"},
     name : {None, PyStr(""), PyStr("projects/p/agentEngines/1")},
     description : {PyStr("Agent Engine playground agent"), PyStr("mine")}]

DeployInit ==
    /\ environ \in Environments
    /\ cfgEntry = "none"
    /\ cfgOut = NotCalled
    /\ calcArg = <<>>
    /\ calcCopy = "none"
    /\ calcOut = NotCalled
    /\ prog = "deploy"
    /\ argv \in DeployArgs
    /\ pc = "main"
    /\ calls = <<>>
    /\ printed = <<>>
    /\ exitWith = NotCalled
    /\ inputs = <<>>

\* A test that lets an empty --name through.
NameIsNone(args) == args.name = None

\* not args.name
NameMissing(args) == ~Truthy(args.name)

\* The program ends: the exception leaves it, or it returns.
End(outcome) ==
    /\ pc' = "done"
    /\ exitWith' = outcome

\* The statement reached after initialize_vertexai, by action.
AfterInitialize ==
    CASE argv.action = "deploy" -> "staging_bucket"
      [] argv.action = "list" -> "agent_engines.list"
      [] argv.action = "delete" -> "agent_engines.delete"

\* The dispatch of __main__ and the header each function prints first; a
\* delete without a name prints the error and ends there.
DeployMain ==
    /\ prog = "deploy"
    /\ pc = "main"
    /\ IF argv.action = "delete" /\ NameMissing(argv)
       THEN /\ printed' = Append(printed,
                  print_error(<<"--name (resource name) is required for deletion">>))
            /\ End(Return(None))
       ELSE /\ printed' = Append(printed,
                  print_header(CASE argv.action = "deploy" ->
                                      <<"Deploying ADK Agent to Agent Engine">>
                                 [] argv.action = "list" -> <<"Deployed Agents">>
                                 [] argv.action = "delete" -> <<"Deleting Agent">>))
            /\ pc' = "initialize_vertexai"
            /\ UNCHANGED exitWith
    /\ UNCHANGED <<cfgVars, calcVars, prog, argv, calls, inputs>>

\* initialize_vertexai: get_config, vertexai.init, print_success.
InitializeVertexai ==
    /\ prog = "deploy"
    /\ pc = "initialize_vertexai"
    /\ LET Init(config) ==
               IF config.kind = "raise"
               THEN End(config) /\ UNCHANGED <<calls, printed>>
               ELSE \E ok \in BOOLEAN :
                       /\ calls' = Append(calls,
                             Call("vertexai.init",
                                  [project |-> config.value.project_id,
                                   location |-> config.value.location,
                                   staging_bucket |-> config.value.staging_bucket],
                                  ok))
                       /\ IF ok
                          THEN /\ printed' = Append(printed,
                                     print_success(<<"Initialized Vertex AI for project '",
                                                     config.value.project_id, "' in '",
                                                     config.value.location, "'">>))
                               /\ pc' = AfterInitialize
                               /\ UNCHANGED exitWith
                          ELSE End(Raise(PlatformError)) /\ UNCHANGED printed
       IN  Init(deploy_get_config(environ))
    /\ UNCHANGED <<cfgVars, calcVars, prog, argv, inputs>>

\* deploy_agent from get_config to the agent: the staging bucket is
\* checked, and create_agent_for_deployment builds the agent.
CheckStagingBucket ==
    /\ prog = "deploy"
    /\ pc = "staging_bucket"
    /\ LET Check(config) ==
               IF config.kind = "raise"
               THEN End(config) /\ UNCHANGED <<calls, printed>>
               ELSE IF ~Truthy(config.value.staging_bucket)
               THEN /\ printed' = Append(printed,
                          print_error(<<"AGENT_ENGINE_STAGING_BUCKET is required for deployment. ",
                                        "Create a GCS bucket and add it to your .env file.">>))
                    /\ End(Raise(ValueError(<<"Staging bucket not configured">>)))
                    /\ UNCHANGED calls
               ELSE /\ printed' = printed \o
                          <<print_info(<<"Creating ADK agent...">>),
                            print_info(<<"Deploying to Agent Engine (this may take a few minutes)...">>)>>
                    /\ calls' = Append(calls,
                          Call("create_agent_for_deployment",
                               [model_name |-> config.value.model_name], TRUE))
                    /\ pc' = "agent_engines.create"
                    /\ UNCHANGED exitWith
       IN  Check(deploy_get_config(environ))
    /\ UNCHANGED <<cfgVars, calcVars, prog, argv, inputs>>

\* The try block of deploy_agent: agent_engines.create; its exception is
\* printed and raised again.
AgentEnginesCreate ==
    /\ prog = "deploy"
    /\ pc = "agent_engines.create"
    /\ \E ok \in BOOLEAN :
          /\ calls' = Append(calls,
                Call("agent_engines.create",
                     [display_name |-> IF Truthy(argv.name) THEN argv.name
                                       ELSE PyStr("adk-playground-agent"),
                      description |-> argv.description],
                     ok))
          /\ IF ok
             THEN /\ printed' = printed \o
                        <<print_success(<<"Agent deployed successfully!">>),
                          print_info(<<"Resource name: ", "remote_agent.resource_name">>)>>
                  /\ End(Return("remote_agent"))
             ELSE /\ printed' = Append(printed,
                        print_error(<<"Deployment failed: ">> \o ExcStr(PlatformError)))
                  /\ End(Raise(PlatformError))
    /\ UNCHANGED <<cfgVars, calcVars, prog, argv, inputs>>

\* list_deployed_agents after initialize_vertexai: agent_engines.list is
\* called outside any try block.
AgentEnginesList ==
    /\ prog = "deploy"
    /\ pc = "agent_engines.list"
    /\ \E result \in {"raise", "none", "some"} :
          /\ calls' = Append(calls,
                             Call("agent_engines.list", <<>>, result # "raise"))
          /\ CASE result = "raise" ->
                    End(Raise(PlatformError)) /\ UNCHANGED printed
               [] result = "none" ->
                    /\ printed' = Append(printed,
                                         print_info(<<"No agents deployed yet.">>))
                    /\ End(Return(<<>>))
               [] result = "some" ->
                    /\ printed' = printed \o
                          <<print_plain(<<"  * ", "agent.display_name">>),
                            print_plain(<<"    Resource: ", "agent.resource_name">>),
                            print_plain(<<>>)>>
                    /\ End(Return(<<"agent">>))
    /\ UNCHANGED <<cfgVars, calcVars, prog, argv, inputs>>

\* The try block of delete_agent: agent_engines.delete; its exception is
\* printed and raised again.
AgentEnginesDelete ==
    /\ prog = "deploy"
    /\ pc = "agent_engines.delete"
    /\ \E ok \in BOOLEAN :
          /\ calls' = Append(calls, Call("agent_engines.delete", argv.name, ok))
          /\ IF ok
             THEN /\ printed' = Append(printed,
                        print_success(<<"Agent '", argv.name, "' deleted successfully!">>))
                  /\ End(Return(None))
             ELSE /\ printed' = Append(printed,
                        print_error(<<"Failed to delete agent: ">> \o ExcStr(PlatformError)))
                  /\ End(Raise(PlatformError))
    /\ UNCHANGED <<cfgVars, calcVars, prog, argv, inputs>>

DeployNext ==
    \/ DeployMain
    \/ InitializeVertexai
    \/ CheckStagingBucket
    \/ AgentEnginesCreate
    \/ AgentEnginesList
    \/ AgentEnginesDelete

SpecDeploy == DeployInit /\ [][DeployNext]_vars


-----------------------------------------------------------------------------
(* The deployment command line: the properties *)

\* The action is delete and --name is missing or empty.
DeleteWithoutName ==
    prog = "deploy" /\ argv.action = "delete" /\ ~Truthy(argv.name)

\* C8: when the action is delete and --name is missing or empty, the
\* program makes no call at all (no vertexai.init, no agent_engines.delete),
\* never raises, and ends right after the dispatch, having printed the
\* error message and nothing else.
C8_DeleteWithoutNameCallsNothing ==
    DeleteWithoutName =>
        /\ calls = <<>>
        /\ exitWith.kind # "raise"
        /\ pc \in {"main", "done"}
        /\ pc = "done" =>
              /\ exitWith = Return(None)
              /\ printed = <<print_error(
                     <<"--name (resource name) is required for deletion">>)>>

\* C8's case: delete was run with an empty --name and has ended.
C8_Witness ==
    /\ DeleteWithoutName
    /\ argv.name = PyStr("")
    /\ pc = "done"
    /\ printed # <<>>

\* The last call the program made raised.
LastCallRaised == calls # <<>> /\ ~calls[Len(calls)].ok

\* The last thing printed went through print_error.
ErrorPrintedLast == printed # <<>> /\ printed[Len(printed)][1] = "error"

\* C9, as claimed: whatever the action, when a call to the platform has
\* raised, the program ends with that exception raised and with the error
\* message printed before it.
C9_PlatformExceptionPrintedThenRaised ==
    (prog = "deploy" /\ pc = "done" /\ LastCallRaised) =>
        /\ exitWith = Raise(PlatformError)
        /\ ErrorPrintedLast


-----------------------------------------------------------------------------
(* The remote-query program: main of examples/query_deployed_agent.py *)

\* What argparse gives: --resource-name (required) and --query (None when
\* it is not given).
QueryArgs ==
    [resource_name : {PyStr("projects/p/agentEngines/1")},
     query : {None, PyStr(""), PyStr("What is 2 + 2?")}]

\* The environments of the query program's runs: the two variables its
\* calls pass on, each unset, empty or set.
QueryEnvironments ==
    {e \in Environments :
        DOMAIN e \subseteq {"GOOGLE_CLOUD_PROJECT", "GOOGLE_CLOUD_LOCATION"}}

\* The lines input() may return, as sequences of characters.
Lines ==
    {<<"q", "u", "i", "t">>, <<" ", "E", "x", "i", "t", " ">>, <<"Q">>,
     <<>>, <<" ", " ">>, <<"h", "i">>, <<" ", "q", "u", "i", "t", "e">>}

\* How many times one run may read a line.
MaxInputs == 3

\* The streams stream_query may return: chunks with content, with empty
\* content, and without a content attribute.
Responses ==
    {<<>>,
     <<[content |-> ""], [author |-> "assistant"]>>,
     <<[content |-> "2 + 2 "], [author |-> "assistant"], [content |-> "is 4"]>>}

RECURSIVE LStrip(_)
LStrip(s) == IF s # <<>> /\ s[1] = " " THEN LStrip(Tail(s)) ELSE s

RECURSIVE RStrip(_)
RStrip(s) ==
    IF s # <<>> /\ s[Len(s)] = " " THEN RStrip(SubSeq(s, 1, Len(s) - 1)) ELSE s

\* str.strip()
Strip(s) == RStrip(LStrip(s))

LowerChar(c) ==
    CASE c = "Q" -> "q" [] c = "U" -> "u" [] c = "I" -> "i" [] c = "T" -> "t"
      [] c = "E" -> "e" [] c = "X" -> "x" [] OTHER -> c

\* str.lower()
Lower(s) == [i \in DOMAIN s |-> LowerChar(s[i])]

\* ["quit", "exit", "q"]
QuitWords == {<<"q", "u", "i", "t">>, <<"e", "x", "i", "t">>, <<"q">>}

RECURSIVE FullResponse(_)
\* The contents of the chunks that have a content, in order.
FullResponse(response) ==
    IF response = <<>> THEN <<>>
    ELSE (IF "content" \in DOMAIN response[1] /\ response[1].content # ""
          THEN <<response[1].content>> ELSE <<>>)
           \o FullResponse(Tail(response))

\* What one call of input() gives: the line typed, without its newline, or
\* the exception it raises.
Returned(line) == [kind |-> "line", text |-> line]

Interrupted == [kind |-> "KeyboardInterrupt", text |-> <<>>]

EndOfFile == [kind |-> "EOFError", text |-> <<>>]

\* The lines read so far.
InputsRead == Cardinality({i \in DOMAIN printed : printed[i][1] = "prompt"})

QueryInit ==
    /\ environ \in QueryEnvironments
    /\ cfgEntry = "none"
    /\ cfgOut = NotCalled
    /\ calcArg = <<>>
    /\ calcCopy = "none"
    /\ calcOut = NotCalled
    /\ prog = "query"
    /\ argv \in QueryArgs
    /\ pc = "main"
    /\ calls = <<>>
    /\ printed = <<>>
    /\ exitWith = NotCalled
    /\ inputs = <<>>

\* print_header, get_config, vertexai.init, print_info.
QueryMain ==
    /\ prog = "query"
    /\ pc = "main"
    /\ LET Init(config) ==
               IF config.kind = "raise"
               THEN /\ printed' = Append(printed,
                                         print_header(<<"Query Deployed Agent">>))
                    /\ End(config)
                    /\ UNCHANGED calls
               ELSE \E ok \in BOOLEAN :
                       /\ calls' = Append(calls,
                             Call("vertexai.init",
                                  [project |-> config.value.project_id,
                                   location |-> config.value.location],
                                  ok))
                       /\ IF ok
                          THEN /\ printed' = printed \o
                                     <<print_header(<<"Query Deployed Agent">>),
                                       print_info(<<"Connecting to agent: ",
                                                    argv.resource_name>>)>>
                               /\ pc' = "agent_engines.get"
                               /\ UNCHANGED exitWith
                          ELSE /\ printed' = Append(printed,
                                     print_header(<<"Query Deployed Agent">>))
                               /\ End(Raise(PlatformError))
       IN  Init(get_config(environ))
    /\ UNCHANGED <<cfgVars, calcVars, prog, argv, inputs>>

\* A lookup whose handler prints the error and goes on.
QueryGetGoesOn ==
    /\ prog = "query"
    /\ pc = "agent_engines.get"
    /\ \E ok \in BOOLEAN :
          /\ calls' = Append(calls,
                             Call("agent_engines.get", argv.resource_name, ok))
          /\ printed' = IF ok THEN printed
                        ELSE Append(printed,
                                    print_error(<<"Failed to get agent: ">>
                                                  \o ExcStr(PlatformError)))
          /\ pc' = "create_session"
          /\ UNCHANGED exitWith
    /\ UNCHANGED <<cfgVars, calcVars, prog, argv, inputs>>

\* The try block around agent_engines.get: its exception is printed and
\* main returns.
QueryGet ==
    /\ prog = "query"
    /\ pc = "agent_engines.get"
    /\ \E ok \in BOOLEAN :
          /\ calls' = Append(calls,
                             Call("agent_engines.get", argv.resource_name, ok))
          /\ IF ok
             THEN /\ pc' = "create_session"
                  /\ UNCHANGED <<printed, exitWith>>
             ELSE /\ printed' = Append(printed,
                                       print_error(<<"Failed to get agent: ">>
                                                     \o ExcStr(PlatformError)))
                  /\ End(Return(None))
    /\ UNCHANGED <<cfgVars, calcVars, prog, argv, inputs>>

\* remote_agent.create_session, and the choice of the mode.
QueryCreateSession ==
    /\ prog = "query"
    /\ pc = "create_session"
    /\ \E ok \in BOOLEAN :
          /\ calls' = Append(calls,
                             Call("create_session", [user_id |-> "user-1"], ok))
          /\ IF ~ok THEN End(Raise(PlatformError)) /\ UNCHANGED printed
             ELSE /\ printed' = printed \o
                        <<print_info(<<"Session created: ", "session['id']">>),
                          print_plain(<<>>)>> \o
                        (IF Truthy(argv.query) THEN <<>>
                         ELSE <<print_info(
                                  <<"Interactive mode. Type 'quit' or 'exit' to stop.\n">>)>>)
                  /\ pc' = IF Truthy(argv.query) THEN "stream_query" ELSE "input"
                  /\ UNCHANGED exitWith
    /\ UNCHANGED <<cfgVars, calcVars, prog, argv, inputs>>

\* Single query mode: one stream_query, and the response printed.
QuerySingle ==
    /\ prog = "query"
    /\ pc = "stream_query"
    /\ \/ /\ calls' = Append(calls,
                Call("stream_query", [message |-> argv.query], FALSE))
          /\ End(Raise(PlatformError))
          /\ UNCHANGED printed
       \/ \E response \in Responses :
             /\ calls' = Append(calls,
                   Call("stream_query", [message |-> argv.query], TRUE))
             /\ printed' = Append(printed,
                                  print_response(FullResponse(response)))
             /\ End(Return(None))
    /\ UNCHANGED <<cfgVars, calcVars, prog, argv, inputs>>

\* The loop goes round: nothing ends.
Continue == pc' = "input" /\ UNCHANGED exitWith

\* A loop that sends the message a second time when the first attempt
\* fails.
QueryLineRetries ==
    /\ prog = "query"
    /\ pc = "input"
    /\ InputsRead < MaxInputs
    /\ \E line \in Lines :
          /\ inputs' = Append(inputs, Returned(line))
          /\ LET Read(user_input) ==
                     IF Lower(user_input) \in QuitWords
                     THEN /\ printed' = printed \o
                                <<<<"prompt", <<"You: ">>>>,
                                  print_info(<<"Goodbye!">>)>>
                          /\ End(Return(None))
                          /\ UNCHANGED calls
                     ELSE IF user_input = <<>>
                     THEN /\ printed' = Append(printed, <<"prompt", <<"You: ">>>>)
                          /\ Continue
                          /\ UNCHANGED calls
                     ELSE \E response \in Responses, failures \in 0..1 :
                             /\ calls' = calls \o
                                   [i \in 1..(failures + 1) |->
                                       Call("stream_query",
                                            [message |-> user_input],
                                            i = failures + 1)]
                             /\ printed' = printed \o
                                   <<<<"prompt", <<"You: ">>>>>> \o
                                   (IF FullResponse(response) # <<>>
                                    THEN <<print_response(FullResponse(response))>>
                                    ELSE <<>>) \o
                                   <<print_plain(<<>>)>>
                             /\ Continue
             IN  Read(Strip(line))
    /\ UNCHANGED <<cfgVars, calcVars, prog, argv>>

\* One pass of the interactive loop in which input() returns a line.
QueryLine ==
    /\ prog = "query"
    /\ pc = "input"
    /\ InputsRead < MaxInputs
    /\ \E line \in Lines :
          /\ inputs' = Append(inputs, Returned(line))
          /\ LET Read(user_input) ==
                     IF Lower(user_input) \in QuitWords
                     THEN /\ printed' = printed \o
                                <<<<"prompt", <<"You: ">>>>,
                                  print_info(<<"Goodbye!">>)>>
                          /\ End(Return(None))
                          /\ UNCHANGED calls
                     ELSE IF user_input = <<>>
                     THEN /\ printed' = Append(printed, <<"prompt", <<"You: ">>>>)
                          /\ Continue
                          /\ UNCHANGED calls
                     ELSE \/ \E response \in Responses :
                                /\ calls' = Append(calls,
                                      Call("stream_query",
                                           [message |-> user_input], TRUE))
                                /\ printed' = printed \o
                                      <<<<"prompt", <<"You: ">>>>>> \o
                                      (IF FullResponse(response) # <<>>
                                       THEN <<print_response(FullResponse(response))>>
                                       ELSE <<>>) \o
                                      <<print_plain(<<>>)>>
                                /\ Continue
                          \/ /\ calls' = Append(calls,
                                   Call("stream_query",
                                        [message |-> user_input], FALSE))
                             /\ printed' = Append(printed, <<"prompt", <<"You: ">>>>)
                             /\ End(Raise(PlatformError))
                          \/ /\ calls' = Append(calls,
                                   Call("stream_query",
                                        [message |-> user_input], FALSE))
                             /\ printed' = printed \o
                                   <<<<"prompt", <<"You: ">>>>,
                                     print_plain(<<"\n">>),
                                     print_info(<<"Interrupted. Goodbye!">>)>>
                             /\ End(Return(None))
             IN  Read(Strip(line))
    /\ UNCHANGED <<cfgVars, calcVars, prog, argv>>

\* One pass in which input() raises: KeyboardInterrupt is handled, and
\* EOFError leaves the program.
QueryNoLine ==
    /\ prog = "query"
    /\ pc = "input"
    /\ InputsRead < MaxInputs
    /\ \/ /\ printed' = printed \o
                <<<<"prompt", <<"You: ">>>>,
                  print_plain(<<"\n">>),
                  print_info(<<"Interrupted. Goodbye!">>)>>
          /\ inputs' = Append(inputs, Interrupted)
          /\ End(Return(None))
       \/ /\ printed' = Append(printed, <<"prompt", <<"You: ">>>>)
          /\ inputs' = Append(inputs, EndOfFile)
          /\ End(Raise([type |-> "EOFError", msg |-> <<>>]))
    /\ UNCHANGED <<cfgVars, calcVars, prog, argv, calls>>

QueryNext ==
    \/ QueryMain
    \/ QueryGet
    \/ QueryCreateSession
    \/ QuerySingle
    \/ QueryLine
    \/ QueryNoLine

SpecQuery == QueryInit /\ [][QueryNext]_vars

-----------------------------------------------------------------------------
(* The remote-query program: the properties *)

\* agent_engines.get was called and raised.
GetFailed ==
    \E i \in DOMAIN calls : calls[i].fn = "agent_engines.get" /\ ~calls[i].ok

\* C10: once agent_engines.get has failed, the program has printed the
\* error and returned None without raising, and the lookup is the last call
\* it ever makes: no create_session and no stream_query, with --query
\* and without.
C10_FailedLookupEndsTheRun ==
    (prog = "query" /\ GetFailed) =>
        /\ pc = "done"
        /\ exitWith = Return(None)
        /\ ErrorPrintedLast
        /\ calls[Len(calls)].fn = "agent_engines.get"
        /\ \A i \in DOMAIN calls :
              calls[i].fn \notin {"create_session", "stream_query"}

\* C10's case: the lookup has failed in a run without --query, which
\* would have gone on to the interactive loop.
C10_Witness ==
    /\ prog = "query"
    /\ GetFailed
    /\ argv.query = None
    /\ pc = "done"


-----------------------------------------------------------------------------
(* The local-run program: main of examples/run_adk_local.py *)

\* The event streams runner.run may yield: events without a content
\* attribute, with content None, and with parts that have a text, an empty
\* text or no text attribute.
EventStreams ==
    {<<>>,
     <<[author |-> "assistant"], [content |-> None]>>,
     <<[content |-> [parts |-> <<[text |-> "2 + 2 "],
                                 [function_call |-> "calculate"],
                                 [text |-> ""]>>]],
       [content |-> [parts |-> <<[text |-> "is 4"]>>]]>>}

RECURSIVE PartsText(_)
\* The texts of the parts that have a text, in order.
PartsText(parts) ==
    IF parts = <<>> THEN <<>>
    ELSE (IF "text" \in DOMAIN parts[1] /\ parts[1].text # ""
          THEN <<parts[1].text>> ELSE <<>>)
           \o PartsText(Tail(parts))

RECURSIVE ResponseText(_)
\* response_text: the texts of the parts of the events that have a content.
ResponseText(events) ==
    IF events = <<>> THEN <<>>
    ELSE (IF "content" \in DOMAIN events[1] /\ events[1].content # None
          THEN PartsText(events[1].content.parts) ELSE <<>>)
           \o ResponseText(Tail(events))

\* The calls main makes between get_config and the loop, in order.
LocalSetup(config) ==
    <<Call("create_adk_agent", [model_name |-> config.model_name], TRUE),
      Call("InMemorySessionService", <<>>, TRUE),
      Call("Runner", [app_name |-> "agent-engine-playtime"], TRUE),
      Call("session_service.create_session",
           [app_name |-> "agent-engine-playtime", user_id |-> "local-user"],
           TRUE)>>

\* The first k calls of a sequence, the last of them having raised.
RaisedAt(cs, k) ==
    [i \in 1..k |-> IF i = k THEN Call(cs[i].fn, cs[i].args, FALSE) ELSE cs[i]]

\* A main that builds the agent, with the default model, before it reads
\* the configuration.
LocalMainAgentFirst ==
    /\ prog = "local"
    /\ pc = "main"
    /\ calls' = Append(calls,
                       Call("create_adk_agent",
                            [model_name |-> PyStr("gemini-2.0-flash")], TRUE))
    /\ printed' = Append(printed, print_header(<<"ADK Agent - Local Testing">>))
    /\ LET Read(config) ==
               IF config.kind = "raise" THEN End(config)
               ELSE pc' = "input" /\ UNCHANGED exitWith
       IN  Read(get_config(environ))
    /\ UNCHANGED <<cfgVars, calcVars, prog, argv, inputs>>

\* main up to the loop: print_header, get_config, the agent, the session
\* service, the runner and the session.
LocalMain ==
    /\ prog = "local"
    /\ pc = "main"
    /\ LET Setup(config) ==
               IF config.kind = "raise"
               THEN /\ printed' = Append(printed,
                          print_header(<<"ADK Agent - Local Testing">>))
                    /\ End(config)
                    /\ UNCHANGED calls
               ELSE \/ /\ calls' = calls \o LocalSetup(config.value)
                       /\ printed' = printed \o
                             <<print_header(<<"ADK Agent - Local Testing">>),
                               print_info(<<"Project: ", config.value.project_id>>),
                               print_info(<<"Model: ", config.value.model_name>>),
                               print_plain(<<>>),
                               print_info(<<"Agent ready! Type 'quit' or 'exit' to stop.\n">>)>>
                       /\ pc' = "input"
                       /\ UNCHANGED exitWith
                    \/ \E k \in DOMAIN LocalSetup(config.value) :
                          /\ calls' = calls \o RaisedAt(LocalSetup(config.value), k)
                          /\ printed' = printed \o
                                <<print_header(<<"ADK Agent - Local Testing">>),
                                  print_info(<<"Project: ", config.value.project_id>>),
                                  print_info(<<"Model: ", config.value.model_name>>),
                                  print_plain(<<>>)>>
                          /\ End(Raise(PlatformError))
       IN  Setup(get_config(environ))
    /\ UNCHANGED <<cfgVars, calcVars, prog, argv, inputs>>

\* One pass of the loop in which input() returns a line.
LocalLine ==
    /\ prog = "local"
    /\ pc = "input"
    /\ InputsRead < MaxInputs
    /\ \E line \in Lines :
          /\ inputs' = Append(inputs, Returned(line))
          /\ LET Read(user_input) ==
                     IF Lower(user_input) \in QuitWords
                     THEN /\ printed' = printed \o
                                <<<<"prompt", <<"You: ">>>>,
                                  print_info(<<"Goodbye!">>)>>
                          /\ End(Return(None))
                          /\ UNCHANGED calls
                     ELSE IF user_input = <<>>
                     THEN /\ printed' = Append(printed, <<"prompt", <<"You: ">>>>)
                          /\ Continue
                          /\ UNCHANGED calls
                     ELSE \/ \E events \in EventStreams :
                                /\ calls' = Append(calls,
                                      Call("runner.run",
                                           [new_message |-> user_input], TRUE))
                                /\ printed' = printed \o
                                      <<<<"prompt", <<"You: ">>>>>> \o
                                      (IF ResponseText(events) # <<>>
                                       THEN <<print_response(ResponseText(events))>>
                                       ELSE <<>>) \o
                                      <<print_plain(<<>>)>>
                                /\ Continue
                          \/ /\ calls' = Append(calls,
                                   Call("runner.run",
                                        [new_message |-> user_input], FALSE))
                             /\ printed' = Append(printed, <<"prompt", <<"You: ">>>>)
                             /\ End(Raise(PlatformError))
                          \/ /\ calls' = Append(calls,
                                   Call("runner.run",
                                        [new_message |-> user_input], FALSE))
                             /\ printed' = printed \o
                                   <<<<"prompt", <<"You: ">>>>,
                                     print_plain(<<"\n">>),
                                     print_info(<<"Interrupted. Goodbye!">>)>>
                             /\ End(Return(None))
             IN  Read(Strip(line))
    /\ UNCHANGED <<cfgVars, calcVars, prog, argv>>

\* One pass in which input() raises: KeyboardInterrupt is handled, and
\* EOFError leaves the program.
LocalNoLine ==
    /\ prog = "local"
    /\ pc = "input"
    /\ InputsRead < MaxInputs
    /\ \/ /\ printed' = printed \o
                <<<<"prompt", <<"You: ">>>>,
                  print_plain(<<"\n">>),
                  print_info(<<"Interrupted. Goodbye!">>)>>
          /\ inputs' = Append(inputs, Interrupted)
          /\ End(Return(None))
       \/ /\ printed' = Append(printed, <<"prompt", <<"You: ">>>>)
          /\ inputs' = Append(inputs, EndOfFile)
          /\ End(Raise([type |-> "EOFError", msg |-> <<>>]))
    /\ UNCHANGED <<cfgVars, calcVars, prog, argv, calls>>

LocalNext == LocalMain \/ LocalLine \/ LocalNoLine

-----------------------------------------------------------------------------
(* The three programs together *)

ProgramsInit ==
    /\ prog \in {"deploy", "query", "local"}
    /\ environ \in IF prog = "deploy" THEN Environments ELSE QueryEnvironments
    /\ cfgEntry = "none"
    /\ cfgOut = NotCalled
    /\ calcArg = <<>>
    /\ calcCopy = "none"
    /\ calcOut = NotCalled
    /\ argv \in CASE prog = "deploy" -> DeployArgs
                  [] prog = "query" -> QueryArgs
                  [] prog = "local" -> {<<>>}
    /\ pc = "main"
    /\ calls = <<>>
    /\ printed = <<>>
    /\ exitWith = NotCalled
    /\ inputs = <<>>

ProgramsNext == DeployNext \/ QueryNext \/ LocalNext

SpecPrograms == ProgramsInit /\ [][ProgramsNext]_vars

-----------------------------------------------------------------------------
(* Properties of the three programs *)

\* The run is inside one of the five entry points: every run of the two
\* example programs, and every run of the deploy program but the delete
\* that __main__ turns away for want of a name.
EntryPointEntered == prog \in {"query", "local"} \/ ~DeleteWithoutName

\* C11: in every entry point (deploy_agent, list_deployed_agents,
\* delete_agent, the remote-query main and the local-run main), when
\* GOOGLE_CLOUD_PROJECT is missing or empty no call into the SDK or the
\* platform is ever made, and the run ends with the ValueError that names
\* GOOGLE_CLOUD_PROJECT: the error is raised before any external call.
C11_ConfigErrorBeforeAnyCall ==
    ProjectMissing =>
        /\ calls = <<>>
        /\ pc \in {"main", "initialize_vertexai", "done"}
        /\ (pc = "done" /\ EntryPointEntered) =>
              /\ exitWith.kind = "raise"
              /\ exitWith.exc.type = "ValueError"
              /\ NamesWord(exitWith.exc.msg, "GOOGLE_CLOUD_PROJECT")

\* C11's case: the local-run main has ended on the configuration error,
\* GOOGLE_CLOUD_PROJECT being set but empty, after its header and before
\* the agent was built.
C11_Witness ==
    /\ prog = "local"
    /\ IsSet("GOOGLE_CLOUD_PROJECT")
    /\ environ["GOOGLE_CLOUD_PROJECT"] = ""
    /\ pc = "done"
    /\ exitWith.kind = "raise"
    /\ exitWith.exc.type = "ValueError"
    /\ printed = <<print_header(<<"ADK Agent - Local Testing">>)>>
    /\ calls = <<>>

\* The calls the deployment and query programs guard or repeat per line.
SingleAttemptCalls ==
    {"agent_engines.create", "agent_engines.delete", "agent_engines.get",
     "stream_query"}

\* No failed call of the four is followed by another call of the same
\* function.
NoSecondAttempt ==
    \A i \in DOMAIN calls :
        (calls[i].fn \in SingleAttemptCalls /\ ~calls[i].ok) =>
            \A j \in (i + 1)..Len(calls) : calls[j].fn # calls[i].fn

\* The messages sent with stream_query, in order.
RECURSIVE StreamQueries(_)
StreamQueries(cs) ==
    IF cs = <<>> THEN <<>>
    ELSE (IF cs[1].fn = "stream_query" THEN <<cs[1].args.message>> ELSE <<>>)
            \o StreamQueries(Tail(cs))

\* What input() gave is a quit word (quit, exit or q, in any case and with
\* blanks around it), or an empty line (nothing but blanks).
IsQuitLine(in) == in.kind = "line" /\ Lower(Strip(in.text)) \in QuitWords

IsEmptyLine(in) == in.kind = "line" /\ Strip(in.text) = <<>>

\* The messages the lines read call for: one for each line that is neither
\* empty nor a quit word, the line without the blanks around it.
RECURSIVE Asked(_)
Asked(ins) ==
    IF ins = <<>> THEN <<>>
    ELSE (IF ins[1].kind = "line" /\ ~IsQuitLine(ins[1]) /\ ~IsEmptyLine(ins[1])
          THEN <<Strip(ins[1].text)>> ELSE <<>>)
            \o Asked(Tail(ins))

\* C12: no external call is retried.  In every run a failed
\* agent_engines.create, delete, get or stream_query is the last call of
\* that function; and in the interactive query loop the stream_query calls
\* are, in order, exactly one for each line read that is neither empty nor
\* a quit word (an empty line adds none), nothing is read and nothing is
\* sent after a quit word or an interrupt, and no call follows a
\* stream_query that failed or was interrupted.
C12_NoCallIsRetried ==
    /\ NoSecondAttempt
    /\ prog = "query" =>
          /\ IF Truthy(argv.query)
             THEN inputs = <<>> /\ Len(StreamQueries(calls)) <= 1
             ELSE StreamQueries(calls) = Asked(inputs)
          /\ \A i \in 1..(Len(inputs) - 1) :
                inputs[i].kind = "line" /\ ~IsQuitLine(inputs[i])
          /\ \A i \in 1..(Len(calls) - 1) : calls[i].ok
          /\ pc = "input" =>
                /\ \A i \in DOMAIN inputs :
                      inputs[i].kind = "line" /\ ~IsQuitLine(inputs[i])
                /\ \A i \in DOMAIN calls : calls[i].ok

\* C12's case: the interactive loop has read an empty line, which sent
\* nothing, then two lines that sent one stream_query each, and the second
\* stream_query failed and ended the run.
C12_Witness ==
    /\ prog = "query"
    /\ pc = "done"
    /\ Len(inputs) = 3
    /\ IsEmptyLine(inputs[1])
    /\ Len(StreamQueries(calls)) = 2
    /\ ~calls[Len(calls)].ok
    /\ calls[Len(calls)].fn = "stream_query"
    /\ exitWith = Raise(PlatformError)

====
